---- MODULE Spec2Model ----
(***************************************************************************)
(* Event-level evaluation of anomaly detections against expert labels, as  *)
(* implemented in src/arima-explore.py: determine_events,                  *)
(* determine_detections, compare_lbl_detns, false_detections, windowing    *)
(* and metrics.                                                            *)
(*                                                                         *)
(* Python lists and pandas columns are modelled as TLA+ sequences.  Python *)
(* positions are 0-based; At(s, i) reads Python position i of s.           *)
(***************************************************************************)
EXTENDS Integers, Sequences, FiniteSets, TLC

\* Longest series explored.
MaxLen == 6

VARIABLES
    pc,                   \* position of the script in windowing() / metrics()
    normal_lbl,           \* expert labels: TRUE = normal, FALSE = anomalous
    detn,                 \* detection flags handed to windowing() by the caller
    anomLbl,              \* label event series (column 0 of the data frame)
    anomDetn,             \* detection flags after reindex + fill
    anomDetns,            \* detection event series (column 0)
    detected_anomalies,   \* label event ids hit by a detection
    valid_detections,     \* detection event ids that hit a label event
    invalid_detections,   \* detection event ids judged false alarms
    TruePositives,
    FalseNegatives,
    FalsePositives,
    TrueNegatives

vars == <<pc, normal_lbl, detn, anomLbl, anomDetn, anomDetns,
          detected_anomalies, valid_detections, invalid_detections,
          TruePositives, FalseNegatives, FalsePositives, TrueNegatives>>

-----------------------------------------------------------------------------
\* Helpers for Python list / pandas semantics.

\* s[i] with a 0-based position i.
At(s, i) == s[i + 1]

\* s[i] = v (list item assignment) with a 0-based position i.
SetAt(s, i, v) == [s EXCEPT ![i + 1] = v]

\* s[-1]
Last(s) == s[Len(s)]

\* max(s) for a non-empty sequence of integers.
SeqMax(s) == CHOOSE m \in {s[k] : k \in 1..Len(s)} : \A k \in 1..Len(s) : s[k] <= m

\* The set of elements of a list.
Range(s) == {s[k] : k \in 1..Len(s)}

\* Series.value_counts()[v] for a value v that occurs; the caller checks presence.
value_counts(s, v) == Cardinality({k \in 1..Len(s) : s[k] = v})

\* sum(Series.value_counts()[ids]) for a list of ids.
RECURSIVE SumCounts(_, _)
SumCounts(s, ids) ==
    IF ids = <<>> THEN 0
    ELSE value_counts(s, Head(ids)) + SumCounts(s, Tail(ids))

-----------------------------------------------------------------------------
\* determine_events: the loop body for Python index i, then the function.

\* Variant of determine_events_loop that does not assign the new id to the
\* point before the transition (events[i-1] = event_count left out).
RECURSIVE determine_events_loop_noRetro(_, _, _, _)
determine_events_loop_noRetro(lbl, i, event_count, events) ==
    IF i >= Len(lbl) THEN events
    ELSE IF ~At(lbl, i)
         THEN IF At(lbl, i - 1)
              THEN determine_events_loop_noRetro(lbl, i + 1, event_count + 1,
                       Append(events, event_count + 1))
              ELSE determine_events_loop_noRetro(lbl, i + 1, event_count,
                       Append(events, event_count))
         ELSE IF ~At(lbl, i - 1)
              THEN determine_events_loop_noRetro(lbl, i + 1, event_count,
                       Append(events, event_count))
              ELSE determine_events_loop_noRetro(lbl, i + 1, event_count,
                       Append(events, 0))

RECURSIVE determine_events_loop(_, _, _, _)
determine_events_loop(lbl, i, event_count, events) ==
    IF i >= Len(lbl) THEN events
    ELSE IF ~At(lbl, i)
         THEN IF At(lbl, i - 1)
              THEN determine_events_loop(lbl, i + 1, event_count + 1,
                       Append(SetAt(events, i - 1, event_count + 1), event_count + 1))
              ELSE determine_events_loop(lbl, i + 1, event_count,
                       Append(events, event_count))
         ELSE IF ~At(lbl, i - 1)
              THEN determine_events_loop(lbl, i + 1, event_count,
                       Append(events, event_count))
              ELSE determine_events_loop(lbl, i + 1, event_count,
                       Append(events, 0))

determine_events(lbl) == determine_events_loop(lbl, 1, 0, <<0>>)

\* determine_detections: same walk, driven by the detection flags.

RECURSIVE determine_detections_loop(_, _, _, _)
determine_detections_loop(det, i, det_count, det_events) ==
    IF i >= Len(det) THEN det_events
    ELSE IF At(det, i)
         THEN IF ~At(det, i - 1)
              THEN determine_detections_loop(det, i + 1, det_count + 1,
                       Append(SetAt(det_events, i - 1, det_count + 1), det_count + 1))
              ELSE determine_detections_loop(det, i + 1, det_count,
                       Append(det_events, det_count))
         ELSE IF At(det, i - 1)
              THEN determine_detections_loop(det, i + 1, det_count,
                       Append(det_events, det_count))
              ELSE determine_detections_loop(det, i + 1, det_count,
                       Append(det_events, 0))

determine_detections(det) == determine_detections_loop(det, 1, 0, <<0>>)

-----------------------------------------------------------------------------
\* compare_lbl_detns: walk all positions, collect ids with previous-element dedup.

\* Variant of compare_loop that appends without looking at the last element.
RECURSIVE compare_loop_noDedup(_, _, _, _, _, _)
compare_loop_noDedup(lbl_ev, det, det_ev, i, da, vd) ==
    IF i >= Len(det) THEN [detected_anomalies |-> Tail(da), valid_detections |-> Tail(vd)]
    ELSE IF At(det, i) /\ 0 # At(lbl_ev, i)
         THEN compare_loop_noDedup(lbl_ev, det, det_ev, i + 1,
                  Append(da, At(lbl_ev, i)), Append(vd, At(det_ev, i)))
         ELSE compare_loop_noDedup(lbl_ev, det, det_ev, i + 1, da, vd)

RECURSIVE compare_loop(_, _, _, _, _, _)
compare_loop(lbl_ev, det, det_ev, i, da, vd) ==
    IF i >= Len(det) THEN [detected_anomalies |-> Tail(da), valid_detections |-> Tail(vd)]
    ELSE IF At(det, i) /\ 0 # At(lbl_ev, i)
         THEN compare_loop(lbl_ev, det, det_ev, i + 1,
                  IF Last(da) = At(lbl_ev, i) THEN da ELSE Append(da, At(lbl_ev, i)),
                  IF Last(vd) = At(det_ev, i) THEN vd ELSE Append(vd, At(det_ev, i)))
         ELSE compare_loop(lbl_ev, det, det_ev, i + 1, da, vd)

compare_lbl_detns(lbl_ev, det, det_ev) == compare_loop(lbl_ev, det, det_ev, 0, <<0>>, <<0>>)

-----------------------------------------------------------------------------
\* false_detections: for i in range(1, max(anomDetns[0])).

\* Variant of false_detections_loop that does not advance det_ind on a match.
RECURSIVE false_detections_loop_noAdvance(_, _, _, _, _)
false_detections_loop_noAdvance(stop, vd, i, det_ind, invalid) ==
    IF i >= stop THEN invalid
    ELSE IF det_ind < Len(vd)
         THEN IF i = At(vd, det_ind)
              THEN false_detections_loop_noAdvance(stop, vd, i + 1, det_ind, invalid)
              ELSE false_detections_loop_noAdvance(stop, vd, i + 1, det_ind,
                       Append(invalid, i))
         ELSE false_detections_loop_noAdvance(stop, vd, i + 1, det_ind, invalid)

RECURSIVE false_detections_loop(_, _, _, _, _)
false_detections_loop(stop, vd, i, det_ind, invalid) ==
    IF i >= stop THEN invalid
    ELSE IF det_ind < Len(vd)
         THEN IF i = At(vd, det_ind)
              THEN false_detections_loop(stop, vd, i + 1, det_ind + 1, invalid)
              ELSE false_detections_loop(stop, vd, i + 1, det_ind, Append(invalid, i))
         ELSE false_detections_loop(stop, vd, i + 1, det_ind, invalid)

false_detections(det_ev, vd) == false_detections_loop(SeqMax(det_ev), vd, 1, 0, <<>>)

-----------------------------------------------------------------------------
\* anomDetn.reindex(anomLbl.index); anomDetn[anomDetn.isnull()] = True
\* The index is the set of positions of the label series.
reindex_fill(det, index) == [t \in index |-> IF t \in DOMAIN det THEN det[t] ELSE TRUE]

-----------------------------------------------------------------------------
\* metrics, lines 191-194.  len(anomDetn) is the number of rows.
metrics_TP(lbl_ev, da) == SumCounts(lbl_ev, da)

\* Variant of metrics_FN that does not subtract the unlabelled points.
metrics_FN_keepZeros(det, lbl_ev, TP) == Len(det) - TP

metrics_FN(det, lbl_ev, TP) == Len(det) - value_counts(lbl_ev, 0) - TP

metrics_FP(det_ev, invalid) == SumCounts(det_ev, invalid)

\* Variant of metrics_TN that does not subtract the false positives.
metrics_TN_dropFP(det, TP, FN, FP) == Len(det) - TP - FN

metrics_TN(det, TP, FN, FP) == Len(det) - TP - FN - FP

-----------------------------------------------------------------------------
Init ==
    /\ pc = "determine_events"
    /\ \E n \in 1..MaxLen :
         /\ normal_lbl \in [1..n -> BOOLEAN]
         /\ detn \in [1..n -> BOOLEAN]
    /\ anomLbl = <<>>
    /\ anomDetn = <<>>
    /\ anomDetns = <<>>
    /\ detected_anomalies = <<>>
    /\ valid_detections = <<>>
    /\ invalid_detections = <<>>
    /\ TruePositives = 0
    /\ FalseNegatives = 0
    /\ FalsePositives = 0
    /\ TrueNegatives = 0

\* windowing, lines 172-173
windowing_determine_events ==
    /\ pc = "determine_events"
    /\ anomLbl' = determine_events(normal_lbl)
    /\ pc' = "reindex"
    /\ UNCHANGED <<normal_lbl, detn, anomDetn, anomDetns, detected_anomalies,
                   valid_detections, invalid_detections,
                   TruePositives, FalseNegatives, FalsePositives, TrueNegatives>>

\* windowing, lines 175-176
windowing_reindex ==
    /\ pc = "reindex"
    /\ anomDetn' = reindex_fill(detn, DOMAIN anomLbl)
    /\ pc' = "determine_detections"
    /\ UNCHANGED <<normal_lbl, detn, anomLbl, anomDetns, detected_anomalies,
                   valid_detections, invalid_detections,
                   TruePositives, FalseNegatives, FalsePositives, TrueNegatives>>

\* windowing, lines 178-179
windowing_determine_detections ==
    /\ pc = "determine_detections"
    /\ anomDetns' = determine_detections(anomDetn)
    /\ pc' = "compare_lbl_detns"
    /\ UNCHANGED <<normal_lbl, detn, anomLbl, anomDetn, detected_anomalies,
                   valid_detections, invalid_detections,
                   TruePositives, FalseNegatives, FalsePositives, TrueNegatives>>

\* windowing, line 181
windowing_compare_lbl_detns ==
    /\ pc = "compare_lbl_detns"
    /\ LET r == compare_lbl_detns(anomLbl, anomDetn, anomDetns)
       IN  /\ detected_anomalies' = r.detected_anomalies
           /\ valid_detections' = r.valid_detections
    /\ pc' = "false_detections"
    /\ UNCHANGED <<normal_lbl, detn, anomLbl, anomDetn, anomDetns, invalid_detections,
                   TruePositives, FalseNegatives, FalsePositives, TrueNegatives>>

\* windowing, lines 184-186
windowing_false_detections ==
    /\ pc = "false_detections"
    /\ invalid_detections' = false_detections(anomDetns, valid_detections)
    /\ pc' = "metrics"
    /\ UNCHANGED <<normal_lbl, detn, anomLbl, anomDetn, anomDetns, detected_anomalies,
                   valid_detections,
                   TruePositives, FalseNegatives, FalsePositives, TrueNegatives>>

\* metrics, lines 191-194.  value_counts()[0] is a label lookup: it raises
\* KeyError when the label event series holds no 0.
metrics_counts ==
    /\ pc = "metrics"
    /\ LET TP == metrics_TP(anomLbl, detected_anomalies)
           FN == metrics_FN(anomDetn, anomLbl, TP)
           FP == metrics_FP(anomDetns, invalid_detections)
           TN == metrics_TN(anomDetn, TP, FN, FP)
       IN  /\ TruePositives' = TP
           /\ IF 0 \in Range(anomLbl)
              THEN /\ FalseNegatives' = FN
                   /\ FalsePositives' = FP
                   /\ TrueNegatives' = TN
                   /\ pc' = "metrics_ratios"
              ELSE /\ UNCHANGED <<FalseNegatives, FalsePositives, TrueNegatives>>
                   /\ pc' = "KeyError"
    /\ UNCHANGED <<normal_lbl, detn, anomLbl, anomDetn, anomDetns, detected_anomalies,
                   valid_detections, invalid_detections>>

\* metrics, lines 196-204.  TruePositives and FalsePositives are sums of
\* Python ints, so TruePositives / (TruePositives + FalsePositives) raises
\* ZeroDivisionError when both are 0; the other quotients have a numpy
\* operand and yield nan or inf instead of raising.  The quotients
\* themselves are not represented.
metrics_ratios ==
    /\ pc = "metrics_ratios"
    /\ pc' = IF TruePositives + FalsePositives = 0 THEN "ZeroDivisionError" ELSE "returned"
    /\ UNCHANGED <<normal_lbl, detn, anomLbl, anomDetn, anomDetns, detected_anomalies,
                   valid_detections, invalid_detections,
                   TruePositives, FalseNegatives, FalsePositives, TrueNegatives>>

Next ==
    \/ windowing_determine_events
    \/ windowing_reindex
    \/ windowing_determine_detections
    \/ windowing_compare_lbl_detns
    \/ windowing_false_detections
    \/ metrics_counts
    \/ metrics_ratios

Spec == Init /\ [][Next]_vars

-----------------------------------------------------------------------------
-----------------------------------------------------------------------------
\* Positions of the script at which each stage's result is available.
AfterEvents == pc # "determine_events"

AfterDetections == AfterEvents /\ pc \notin {"reindex", "determine_detections"}

AfterCompare == AfterDetections /\ pc # "compare_lbl_detns"

AfterFalseDetections == AfterCompare /\ pc # "false_detections"

Counted == pc \in {"metrics_ratios", "ZeroDivisionError", "returned"}

\* The label flags: a point is flagged when it is not labelled normal.
labelFlags == [i \in DOMAIN normal_lbl |-> ~normal_lbl[i]]

\* All elements of a list equal v / differ from v.
AllEqual(s, v) == \A k \in 1..Len(s) : s[k] = v

\* A list of integers is strictly increasing and positive.
StrictlyIncreasingPositive(s) ==
    /\ \A k \in 1..Len(s) : s[k] >= 1
    /\ \A k \in 1..(Len(s) - 1) : s[k] < s[k + 1]

-----------------------------------------------------------------------------
\* The event series e is 0 exactly where the flag is False, positive and
\* constant on each maximal run of True flags, and the runs are numbered
\* 1, 2, 3, ... in order of appearance without gaps.
SegmentExact(f, e) ==
    /\ Len(e) = Len(f)
    /\ \A i \in 1..Len(f) : (e[i] = 0) <=> ~f[i]
    /\ \A i \in 1..Len(f) : e[i] >= 0
    /\ \A i \in 1..(Len(f) - 1) : (f[i] /\ f[i + 1]) => e[i] = e[i + 1]
    /\ \A i \in 1..Len(f) :
          f[i] => e[i] = Cardinality({k \in 1..i : f[k] /\ (k = 1 \/ ~f[k - 1])})

\* C6 as stated: the label event series and the detection event series are 0
\* exactly where the flag is False, positive and constant on each maximal run
\* of True flags, with the runs numbered 1, 2, 3, ... without gaps.
C6_AsStated ==
    /\ AfterEvents => SegmentExact(labelFlags, anomLbl)
    /\ AfterDetections => SegmentExact(anomDetn, anomDetns)

\* Number of runs of True flags that begin after the first sample, up to
\* position i.
RunNumber(f, i) == Cardinality({k \in 2..i : f[k] /\ ~f[k - 1]})

SegmentWidened(f, e) ==
    /\ Len(e) = Len(f)
    /\ \A i \in 1..Len(f) :
          e[i] = IF f[i] THEN RunNumber(f, i)
                 ELSE IF i < Len(f) /\ f[i + 1] THEN RunNumber(f, i + 1)
                 ELSE IF i > 1 /\ f[i - 1] THEN RunNumber(f, i - 1)
                 ELSE 0

\* C6 amended: runs of True flags that do not start at the first sample are
\* numbered 1, 2, 3, ... in order, and a run that starts at the first sample
\* has id 0; the id is constant on the run and is also given to the point
\* just before the run and to the point just after it (a point between two
\* runs takes the id of the later run); every other point is 0.
C6_Segmenter ==
    /\ AfterEvents => SegmentWidened(labelFlags, anomLbl)
    /\ AfterDetections => SegmentWidened(anomDetn, anomDetns)

\* C6 witness: a label series with two runs, the first widened on both sides,
\* and a detection series with a run after the first sample.
C6_Witness ==
    /\ AfterDetections
    /\ \E i \in 2..(Len(anomLbl) - 1) :
          /\ ~labelFlags[i - 1] /\ labelFlags[i] /\ ~labelFlags[i + 1]
          /\ anomLbl[i - 1] = 1 /\ anomLbl[i] = 1 /\ anomLbl[i + 1] = 1
    /\ 2 \in Range(anomLbl)
    /\ 1 \in Range(anomDetns)

\* All-False flags give all zeros; all-True flags of length >= 2 give 0 at
\* the first position and one constant positive id after it.
SegmentUniform(f, e) ==
    /\ AllEqual(f, FALSE) => AllEqual(e, 0)
    /\ (AllEqual(f, TRUE) /\ Len(f) >= 2) =>
          /\ e[1] = 0
          /\ \E c \in 1..Len(f) : \A i \in 2..Len(f) : e[i] = c

\* C7 as stated: an all-False flag sequence segments to all zeros, and an
\* all-True flag sequence of length n >= 2 segments to 0 at the first
\* position and one constant positive id at every later position.
C7_AsStated ==
    /\ AfterEvents => SegmentUniform(labelFlags, anomLbl)
    /\ AfterDetections => SegmentUniform(anomDetn, anomDetns)

-----------------------------------------------------------------------------
\* Number of points of a series that carry value v / a value other than 0.
Points(s, v) == Cardinality({i \in 1..Len(s) : s[i] = v})

NonZeroPoints(s) == Cardinality({i \in 1..Len(s) : s[i] # 0})

\* C1: once metrics has computed the four counts, they add up to the length
\* of the series.
C1_CountConservation ==
    Counted => TruePositives + FalseNegatives + FalsePositives + TrueNegatives
                 = Len(normal_lbl)

\* C1 witness: metrics returned, the first three counts are positive and the
\* fourth is not negative.
C1_Witness ==
    /\ pc = "returned"
    /\ TruePositives > 0
    /\ FalseNegatives > 0
    /\ FalsePositives > 0
    /\ TrueNegatives >= 0

\* C2 as stated: each of the four counts is non-negative.
C2_AsStated ==
    Counted => /\ TruePositives >= 0
               /\ FalseNegatives >= 0
               /\ FalsePositives >= 0
               /\ TrueNegatives >= 0

\* C3 as stated: false_detections returns, in increasing order, exactly the
\* ids 1..max(anomDetns) that are not in valid_detections.
C3_AsStated ==
    AfterFalseDetections =>
        /\ \A k \in 1..(Len(invalid_detections) - 1) :
              invalid_detections[k] < invalid_detections[k + 1]
        /\ Range(invalid_detections)
              = {k \in 1..SeqMax(anomDetns) : k \notin Range(valid_detections)}

\* Detection events that share no point with a label event, and label events
\* that no detection flag or detection event touches.
DisjointDetections ==
    {d \in 1..SeqMax(anomDetns) : \A i \in 1..Len(anomDetns) :
                                     anomDetns[i] = d => anomLbl[i] = 0}

MissedLabels ==
    {l \in 1..SeqMax(anomLbl) : \A i \in 1..Len(anomLbl) :
                                   anomLbl[i] = l => (anomDetns[i] = 0 /\ ~anomDetn[i])}

\* C4 as stated: a detection event that shares no point with a label event
\* is in invalid_detections and all its points are in FalsePositives; a
\* label event that no detection overlaps is not in detected_anomalies and
\* all its points are in FalseNegatives.
C4_AsStated ==
    Counted =>
        /\ DisjointDetections \subseteq Range(invalid_detections)
        /\ FalsePositives >= Cardinality({i \in 1..Len(anomDetns) :
                                             anomDetns[i] \in DisjointDetections})
        /\ MissedLabels \cap Range(detected_anomalies) = {}
        /\ FalseNegatives >= Cardinality({i \in 1..Len(anomLbl) :
                                             anomLbl[i] \in MissedLabels})

\* C5 as stated: wherever both event series are non-zero, the label event id
\* is in detected_anomalies and the detection event id is in valid_detections.
C5_AsStated ==
    AfterCompare =>
        \A i \in 1..Len(anomLbl) :
            (anomDetns[i] # 0 /\ anomLbl[i] # 0) =>
                /\ anomLbl[i] \in Range(detected_anomalies)
                /\ anomDetns[i] \in Range(valid_detections)

SameFlags == \A i \in 1..Len(normal_lbl) : detn[i] = ~normal_lbl[i]

\* C9: when the detection flags are set exactly where the label is
\* anomalous, every label event is in detected_anomalies, invalid_detections
\* is empty, and FN = 0 and FP = 0.
C9_FullOverlap ==
    SameFlags =>
        /\ AfterFalseDetections =>
              /\ Range(detected_anomalies) = Range(anomLbl) \ {0}
              /\ invalid_detections = <<>>
        /\ Counted => (FalseNegatives = 0 /\ FalsePositives = 0)

\* C9 witness: identical flags with two events, and metrics returned.
C9_Witness ==
    /\ pc = "returned"
    /\ SameFlags
    /\ Len(detected_anomalies) = 2
    /\ TruePositives > 0

\* C10: detected_anomalies and valid_detections are strictly increasing
\* lists of positive ids (no repeats, no 0).
C10_StrictlyIncreasing ==
    AfterCompare =>
        /\ StrictlyIncreasingPositive(detected_anomalies)
        /\ StrictlyIncreasingPositive(valid_detections)

\* C10 witness: both lists hold two ids, and two neighbouring points matched
\* the same pair of events, so the dedup skipped an id.
C10_Witness ==
    /\ AfterCompare
    /\ Len(detected_anomalies) = 2
    /\ Len(valid_detections) = 2
    /\ \E i \in 1..(Len(anomLbl) - 1) :
          /\ anomDetn[i] /\ anomDetn[i + 1]
          /\ anomLbl[i] # 0 /\ anomLbl[i] = anomLbl[i + 1]
          /\ anomDetns[i] # 0 /\ anomDetns[i] = anomDetns[i + 1]

====
